---- MODULE Spec2Model ----
(***************************************************************************)
(* Model of check_redshift (redshift-checker notebook, first code cell).   *)
(*                                                                         *)
(* One invocation of check_redshift is a run of the state machine: Init is *)
(* the state at entry (arguments bound, all accumulators empty), and each  *)
(* action is one block of the function body.  Wavelengths are integers and *)
(* every quotient the code forms is kept as an exact rational <<n, d>>     *)
(* in lowest terms with d > 0; <<0, 0>> stands for not-a-number.           *)
(* Names are sequences of one-character strings, so that the " & " label   *)
(* built at line 58 and split again at line 74 are real string operations. *)
(***************************************************************************)
EXTENDS Integers, Sequences, FiniteSets, TLC

(***************************************************************************)
(* Bounds of the model.                                                    *)
(***************************************************************************)
MaxCal == 3
MaxObs == 3
MaxAnyCal == 2
MaxScaled == 3

(***************************************************************************)
(* Exact rational arithmetic.                                              *)
(***************************************************************************)
Abs(n) == IF n < 0 THEN -n ELSE n

RECURSIVE GCD(_, _)
GCD(a, b) == IF b = 0 THEN a ELSE GCD(b, a % b)

NaN == <<0, 0>>

IsNaN(r) == r[2] = 0

\* n/d in lowest terms with a positive denominator; not-a-number when
\* d = 0, which is what arithmetic on a not-a-number gives
Rat(n, d) ==
    IF d = 0 THEN NaN
    ELSE LET g == GCD(Abs(n), Abs(d))
             s == IF d < 0 THEN -1 ELSE 1
         IN  <<(s * n) \div g, (s * d) \div g>>

RInt(n) == <<n, 1>>
\* sums over the least common denominator, to keep the integers small
RAdd(a, b) ==
    IF a[2] = 0 \/ b[2] = 0 THEN NaN
    ELSE LET g == GCD(a[2], b[2])
         IN  Rat(a[1] * (b[2] \div g) + b[1] * (a[2] \div g),
                 (a[2] \div g) * b[2])
RSub(a, b) == RAdd(a, <<-b[1], b[2]>>)
RMul(a, b) == Rat(a[1] * b[1], a[2] * b[2])
\* a / b for b # 0
RQuot(a, b) == Rat(a[1] * b[2], a[2] * b[1])
RAbs(a) == <<Abs(a[1]), a[2]>>
RLt(a, b) == a[1] * b[2] < b[1] * a[2]
RLeq(a, b) == a[1] * b[2] <= b[1] * a[2]

RECURSIVE Pow10(_)
Pow10(k) == IF k = 0 THEN 1 ELSE 10 * Pow10(k - 1)

\* round(r, k) and "%.kf" % r: r rounded to k decimals, ties to even
RoundTo(r, k) ==
    IF IsNaN(r) THEN NaN
    ELSE LET x == r[1] * Pow10(k)
             q == x \div r[2]
             m == x % r[2]
             up == \/ 2 * m > r[2]
                   \/ 2 * m = r[2] /\ q % 2 = 1
         IN  Rat(IF up THEN q + 1 ELSE q, Pow10(k))

RECURSIVE RSum(_)
RSum(s) == IF s = <<>> THEN RInt(0) ELSE RAdd(Head(s), RSum(Tail(s)))

\* np.mean: not-a-number on an empty array
Mean(s) == IF s = <<>> THEN NaN ELSE RQuot(RSum(s), RInt(Len(s)))

\* np.std (population), kept as its square
Variance(s) ==
    IF s = <<>> THEN NaN
    ELSE LET m == Mean(s)
             sq == [k \in 1..Len(s) |-> RMul(RSub(s[k], m), RSub(s[k], m))]
         IN  RQuot(RSum(sq), RInt(Len(s)))

\* np.median: middle of the sorted values, mean of the two middle ones
\* for an even count, not-a-number on an empty array
Median(s) ==
    IF s = <<>> THEN NaN
    ELSE LET srt == SortSeq(s, RLt)
             n == Len(s)
         IN  IF n % 2 = 1 THEN srt[(n + 1) \div 2]
             ELSE RQuot(RAdd(srt[n \div 2], srt[n \div 2 + 1]), RInt(2))

(***************************************************************************)
(* Strings: the label separator, concatenation and str.split.              *)
(***************************************************************************)
SEP == <<" ", "&", " ">>

IsPrefix(p, s) == Len(p) <= Len(s) /\ SubSeq(s, 1, Len(p)) = p

\* s[from..] for 1-based from
Drop(s, from) == SubSeq(s, from, Len(s))

\* str.split(" & "): cut at every occurrence of the separator, left to right
RECURSIVE SplitFrom(_, _)
SplitFrom(s, cur) ==
    IF s = <<>> THEN <<cur>>
    ELSE IF IsPrefix(SEP, s)
         THEN <<cur>> \o SplitFrom(Drop(s, Len(SEP) + 1), <<>>)
         ELSE SplitFrom(Tail(s), Append(cur, Head(s)))

Split(s) == SplitFrom(s, <<>>)

\* cal_names[i] + " & " + cal_names[j]
Label(a, b) == a \o SEP \o b

\* the largest position holding x in place of the smallest
IndexOfLast(s, x) ==
    IF \E k \in 1..Len(s) : s[k] = x
    THEN CHOOSE k \in 1..Len(s) :
            s[k] = x /\ \A m \in (k + 1)..Len(s) : s[m] # x
    ELSE 0

\* list.index: the smallest position holding x, 0 when absent (ValueError)
IndexOf(s, x) ==
    IF \E k \in 1..Len(s) : s[k] = x
    THEN CHOOSE k \in 1..Len(s) : s[k] = x /\ \A m \in 1..(k - 1) : s[m] # x
    ELSE 0

\* x in list
Contains(s, x) == \E k \in 1..Len(s) : s[k] = x

\* list.remove(x): drop the first element equal to x (x is present)
RemoveFirst(s, x) ==
    LET k == IndexOf(s, x)
    IN  SubSeq(s, 1, k - 1) \o SubSeq(s, k + 1, Len(s))

(***************************************************************************)
(* Arguments of the call.                                                  *)
(***************************************************************************)
NameH == <<"H">>
NameO == <<"O">>
NameHO == <<"H", " ", "&", " ", "O">>
NameN == <<"N">>
NameS == <<"S">>

\* the lines a catalog of the data model is made of: positive wavelengths,
\* and one name at two wavelengths, as N II and S II in the air catalog of
\* the notebook
CatalogLines == {<<NameH, 2>>, <<NameO, 3>>, <<NameH, 4>>}
\* observed wavelengths of the data model: the first two lines at z = 1
ObsWavSet == {4, 6}
\* what a caller can also pass: a name that holds the label separator,
\* zero and negative wavelengths
AnyNamePool == {NameH, NameO, NameHO}
AnyWavSet == {-1, 0, 1, 2}
AnyObsSet == {0, 2, 4}

\* offset: exact ratios only, and one eighth
OffsetSet == {<<0, 1>>, <<1, 8>>}
\* the defaults of lines 50-52
DefaultZLow == <<0, 1>>
DefaultZHigh == <<10, 1>>
DefaultClip == <<1, 10>>
\* (z_low, z_high, clip): the defaults, and a caller's range and radius
EstimatorSet == {<<DefaultZLow, DefaultZHigh, DefaultClip>>,
                 <<<<1, 4>>, <<3, 4>>, <<3, 4>>>>}

\* catalog lines of four different names, and the factors 1 + z by which an
\* observed list is the catalog scaled (z = 0, 1/2, 1)
ScaledLines == {<<NameH, 2>>, <<NameO, 4>>, <<NameN, 6>>, <<NameS, 10>>}
ScaleSet == {<<1, 1>>, <<3, 2>>, <<2, 1>>}

VARIABLES
    cal_names, cal_wav, obs_wav, offset, redshift, z_low, z_high, clip,
    ratios, ratio_names, error, candidates, zs, output, zs_to_rem,
    lines_to_rem, avg_z, std_z, med_z,
    diag,       \* the lines printed so far
    pos,        \* position of the loop of line 92 in output
    raised,     \* the exception that ended the call, "none" otherwise
    pc

args == <<cal_names, cal_wav, obs_wav, offset, redshift, z_low, z_high, clip>>
stats == <<avg_z, std_z, med_z>>
vars == <<args, ratios, ratio_names, error, candidates, zs, output,
          zs_to_rem, lines_to_rem, stats, diag, pos, raised, pc>>

\* lines 42-52: empty accumulators, keyword defaults read
Locals ==
    /\ ratios = <<>>
    /\ ratio_names = <<>>
    /\ error = <<>>
    /\ candidates = <<>>
    /\ zs = <<>>
    /\ output = <<>>
    /\ zs_to_rem = <<>>
    /\ lines_to_rem = <<>>
    /\ avg_z = NaN
    /\ std_z = NaN
    /\ med_z = NaN
    /\ diag = <<>>
    /\ pos = 0
    /\ raised = "none"
    /\ pc = "enumerate"

\* lines 50-52 read the keywords whether or not redshift is requested
Config ==
    /\ offset \in OffsetSet
    /\ redshift \in BOOLEAN
    /\ \E e \in EstimatorSet :
          /\ z_low = e[1]
          /\ z_high = e[2]
          /\ clip = e[3]

\* a call within the data model: paired names and positive wavelengths
Init ==
    /\ \E n \in 0..MaxCal :
          \E lines \in [1..n -> CatalogLines] :
              /\ cal_names = [k \in 1..n |-> lines[k][1]]
              /\ cal_wav = [k \in 1..n |-> lines[k][2]]
    /\ \E m \in 0..MaxObs : obs_wav \in [1..m -> ObsWavSet]
    /\ Config
    /\ Locals

\* any call: sequences of unrelated lengths, any integer wavelength
InitAny ==
    /\ \E n \in 0..MaxAnyCal : cal_names \in [1..n -> AnyNamePool]
    /\ \E n \in 0..MaxAnyCal : cal_wav \in [1..n -> AnyWavSet]
    /\ \E m \in 0..MaxAnyCal : obs_wav \in [1..m -> AnyObsSet]
    /\ Config
    /\ Locals

\* a call on a catalog of different names and the observed list of the same
\* lines, every one at the same redshift
InitScaled ==
    /\ \E n \in 2..MaxScaled :
          \E lines \in [1..n -> ScaledLines] :
              /\ \A a, b \in 1..n : a # b => lines[a] # lines[b]
              /\ cal_names = [k \in 1..n |-> lines[k][1]]
              /\ cal_wav = [k \in 1..n |-> lines[k][2]]
              /\ \E f \in ScaleSet :
                    obs_wav = [k \in 1..n |-> (lines[k][2] * f[1]) \div f[2]]
    /\ Config
    /\ Locals

(***************************************************************************)
(* Lines 53-58: header, then every catalog pair i < j in list order.       *)
(***************************************************************************)
\* the index pairs <<i, j>>, i < j <= n, as the nested range loops visit them
RECURSIVE PairsFrom(_, _, _)
PairsFrom(i, j, n) ==
    IF i >= n THEN <<>>
    ELSE IF j > n THEN PairsFrom(i + 1, i + 2, n)
         ELSE <<<<i, j>>>> \o PairsFrom(i, j + 1, n)

\* the inner range running one position too far
PairsOffByOne(n) == PairsFrom(1, 2, n + 1)

Pairs(n) == PairsFrom(1, 2, n)

\* line 57 with the larger wavelength always on top
CalRatioSorted(wav, i, j) ==
    IF wav[j] >= wav[i] THEN Rat(wav[j], wav[i]) ELSE Rat(wav[i], wav[j])

\* line 57 with the quotient turned round
CalRatioInverted(wav, i, j) == Rat(wav[i], wav[j])

\* cal_wav[(i+1):][j] / cal_wav[i]
CalRatio(wav, i, j) == Rat(wav[j], wav[i])

RECURSIVE EnumLoop(_, _, _, _, _)
EnumLoop(ps, names, wav, rs, ns) ==
    IF ps = <<>> THEN [ratios |-> rs, names |-> ns, exc |-> "none"]
    ELSE LET i == Head(ps)[1]
             j == Head(ps)[2]
         IN  IF j > Len(wav)
             THEN [ratios |-> rs, names |-> ns, exc |-> "IndexError"]
             ELSE IF wav[i] = 0
             THEN [ratios |-> rs, names |-> ns, exc |-> "ZeroDivisionError"]
             ELSE EnumLoop(Tail(ps), names, wav,
                           Append(rs, CalRatio(wav, i, j)),
                           Append(ns, Label(names[i], names[j])))

RuleLine == [kind |-> "rule"]
BlankLine == [kind |-> "blank"]

Enumerate ==
    /\ pc = "enumerate"
    /\ \E e \in {EnumLoop(Pairs(Len(cal_names)), cal_names, cal_wav,
                          <<>>, <<>>)} :
           /\ ratios' = e.ratios
           /\ ratio_names' = e.names
           /\ raised' = e.exc
           /\ pc' = IF e.exc = "none" THEN "match" ELSE "raised"
    /\ diag' = diag \o
               <<[kind |-> "candHeader",
                  pct |-> RoundTo(RMul(RInt(100), offset), 2)],
                 RuleLine>>
    /\ UNCHANGED <<args, error, candidates, zs, output, zs_to_rem,
                   lines_to_rem, stats, pos>>

(***************************************************************************)
(* Lines 59-67: every ratio against every observed pair.                   *)
(***************************************************************************)
\* line 62 with the quotient turned round
ObsRatioInverted(obs, k, l) == Rat(obs[k], obs[l])

\* obs_wav[(i+1):][j] / obs_wav[i]
ObsRatio(obs, k, l) == Rat(obs[l], obs[k])

\* abs((obs_ratio - ratios[r]) / ratios[r])
PercentError(o, c) == RAbs(RQuot(RSub(o, c), c))

\* line 64 with < in place of <=
WithinStrict(pe, off) == RLt(pe, off)

\* line 64 with the comparison turned round
WithinReversed(pe, off) == RLeq(off, pe)

\* line 64
Within(pe, off) == RLeq(pe, off)

\* <<r, k, l>> in the order of the three nested loops
RECURSIVE CombosFrom(_, _, _)
CombosFrom(r, nr, ps) ==
    IF r > nr THEN <<>>
    ELSE [x \in 1..Len(ps) |-> <<r, ps[x][1], ps[x][2]>>]
         \o CombosFrom(r + 1, nr, ps)

\* the loops of lines 59-61 nested the other way: observed pair outside
CombosObservedOuter(nr, m) ==
    LET ps == Pairs(m)
    IN  [x \in 1..(Len(ps) * nr) |->
            <<((x - 1) % nr) + 1,
              ps[((x - 1) \div nr) + 1][1], ps[((x - 1) \div nr) + 1][2]>>]

Combos(nr, m) == CombosFrom(1, nr, Pairs(m))

\* the first combination whose quotients divide by zero (line 62 or 63),
\* one past the last combination when there is none
FirstZeroDivision(cs, rs, obs) ==
    IF \E x \in 1..Len(cs) : obs[cs[x][2]] = 0 \/ rs[cs[x][1]][1] = 0
    THEN CHOOSE x \in 1..Len(cs) :
            /\ obs[cs[x][2]] = 0 \/ rs[cs[x][1]][1] = 0
            /\ \A y \in 1..(x - 1) :
                  obs[cs[y][2]] # 0 /\ rs[cs[y][1]][1] # 0
    ELSE Len(cs) + 1

\* the combinations the loops reach, each with its observed ratio and error
Evaluated(cs, rs, obs) ==
    [x \in 1..(FirstZeroDivision(cs, rs, obs) - 1) |->
        [r |-> cs[x][1], k |-> cs[x][2], l |-> cs[x][3],
         o |-> ObsRatio(obs, cs[x][2], cs[x][3]),
         pe |-> PercentError(ObsRatio(obs, cs[x][2], cs[x][3]), rs[cs[x][1]])]]

HitsOf(ev, ns, rs, off, stopped) ==
    [error |-> [x \in 1..Len(ev) |-> ev[x].pe],
     candidates |-> [x \in 1..Len(ev) |-> <<<<ev[x].k, ev[x].l>>, ns[ev[x].r]>>],
     lines |-> [x \in 1..Len(ev) |->
                   [kind |-> "candidate", a |-> ev[x].k, b |-> ev[x].l,
                    obs_ratio |-> RoundTo(ev[x].o, 6), label |-> ns[ev[x].r],
                    ratio |-> RoundTo(rs[ev[x].r], 6)]],
     exc |-> IF stopped THEN "ZeroDivisionError" ELSE "none"]

\* lines 59-67 over the combinations cs: what line 64 lets through, in order
MatchLoop(cs, rs, ns, obs, off) ==
    HitsOf(SelectSeq(Evaluated(cs, rs, obs), LAMBDA e : Within(e.pe, off)),
           ns, rs, off, FirstZeroDivision(cs, rs, obs) <= Len(cs))

Matcher(rs, ns, obs, off) ==
    MatchLoop(Combos(Len(rs), Len(obs)), rs, ns, obs, off)

Match ==
    /\ pc = "match"
    /\ \E m \in {Matcher(ratios, ratio_names, obs_wav, offset)} :
           /\ error' = m.error
           /\ candidates' = m.candidates
           /\ diag' = diag \o m.lines
           /\ raised' = m.exc
           /\ pc' = IF m.exc = "none" THEN "aggregate" ELSE "raised"
    /\ UNCHANGED <<args, ratios, ratio_names, zs, output, zs_to_rem,
                   lines_to_rem, stats, pos>>

(***************************************************************************)
(* Lines 68-82: the identification list, one candidate at a time.          *)
(***************************************************************************)
\* lines 79-82 without the membership tests
AddAlways(out, rec) == Append(out, rec)

\* lines 79-82: append a copy unless an equal record is already there
AddUnique(out, rec) == IF Contains(out, rec) THEN out ELSE Append(out, rec)

\* lines 72-82 for the first upto candidates: the list so far, and the
\* exception that stopped the loop
RECURSIVE AggLoop(_, _, _, _, _)
AggLoop(cands, upto, names, wav, obs) ==
    IF upto = 0 THEN [output |-> <<>>, exc |-> "none"]
    ELSE LET before == AggLoop(cands, upto - 1, names, wav, obs)
             out == before.output
             selected_lines == cands[upto][1]
             parts == Split(cands[upto][2])
             obs1 == obs[selected_lines[1]]
             obs2 == obs[selected_lines[2]]
             x1 == IndexOf(names, parts[1])
             x2 == IndexOf(names, parts[2])
         IN  IF before.exc # "none" THEN before
             ELSE IF x1 = 0 THEN [output |-> out, exc |-> "ValueError"]
             ELSE IF x1 > Len(wav) THEN [output |-> out, exc |-> "IndexError"]
             ELSE IF x2 = 0 THEN [output |-> out, exc |-> "ValueError"]
             ELSE IF x2 > Len(wav) THEN [output |-> out, exc |-> "IndexError"]
             ELSE LET line_object1 == <<parts[1], obs1, wav[x1]>>
                      line_object2 == <<parts[2], obs2, wav[x2]>>
                  IN  [output |-> AddUnique(AddUnique(out, line_object1),
                                            line_object2),
                       exc |-> "none"]

Aggregator(cands, names, wav, obs) ==
    AggLoop(cands, Len(cands), names, wav, obs)

\* line 83 with the estimator run whatever redshift says
BlockAfterAggregationAlways(exc, rs) ==
    IF exc # "none" THEN "raised" ELSE "compute"

\* line 83: the estimator block runs only if redshift is requested
BlockAfterAggregation(exc, rs) ==
    IF exc # "none" THEN "raised"
    ELSE IF rs THEN "compute" ELSE "return"

Aggregate ==
    /\ pc = "aggregate"
    /\ \E a \in {Aggregator(candidates, cal_names, cal_wav, obs_wav)} :
           /\ output' = a.output
           /\ raised' = a.exc
           /\ pc' = BlockAfterAggregation(a.exc, redshift)
    /\ diag' = IF redshift
               THEN diag \o <<BlankLine, [kind |-> "zHeader"], RuleLine>>
               ELSE diag
    /\ UNCHANGED <<args, ratios, ratio_names, error, candidates, zs,
                   zs_to_rem, lines_to_rem, stats, pos>>

(***************************************************************************)
(* Lines 83-91: per-line redshift and the statistics before rejection.     *)
(***************************************************************************)
\* line 85 with the quotient inverted
RedshiftInverted(obs, rest) == RSub(Rat(rest, obs), RInt(1))

\* (line_obj[1] / line_obj[2]) - 1
Redshift(obs, rest) == RSub(Rat(obs, rest), RInt(1))

ZLine(rec, z) ==
    [kind |-> "z", wav |-> RoundTo(RInt(rec[2]), 2), name |-> rec[1],
     z |-> RoundTo(z, 4)]

\* line 86: the record gains its redshift as a fourth field
WithZ(rec) == Append(rec, Redshift(rec[2], rec[3]))

\* line 91
Baseline(values) == Median(values)

ComputeZ ==
    /\ pc = "compute"
    /\ IF \E k \in 1..Len(output) : output[k][3] = 0
       THEN LET bad == CHOOSE k \in 1..Len(output) :
                          /\ output[k][3] = 0
                          /\ \A m \in 1..(k - 1) : output[m][3] # 0
                done == [k \in 1..(bad - 1) |-> WithZ(output[k])]
            IN  /\ output' = done \o SubSeq(output, bad, Len(output))
                /\ zs' = [k \in 1..(bad - 1) |-> done[k][4]]
                /\ diag' = diag \o
                           [k \in 1..(bad - 1) |-> ZLine(done[k], done[k][4])]
                /\ raised' = "ZeroDivisionError"
                /\ pc' = "raised"
                /\ UNCHANGED <<stats, pos>>
       ELSE \E out \in {[k \in 1..Len(output) |-> WithZ(output[k])]} :
            \E values \in {[k \in 1..Len(out) |-> out[k][4]]} :
                /\ output' = out
                /\ zs' = values
                /\ diag' = diag \o
                           [k \in 1..Len(out) |-> ZLine(out[k], out[k][4])]
                /\ avg_z' = Mean(values)
                /\ std_z' = Variance(values)
                /\ med_z' = Baseline(values)
                /\ pos' = 1
                /\ pc' = "reject"
                /\ UNCHANGED raised
    /\ UNCHANGED <<args, ratios, ratio_names, error, candidates, zs_to_rem,
                   lines_to_rem>>

(***************************************************************************)
(* Lines 92-101: the rejection pass, one record of output per step.        *)
(***************************************************************************)
\* line 93
FailsClip(z, med, radius) ==
    RLt(z, RSub(med, radius)) \/ RLt(RAdd(med, radius), z)

\* line 98 without the upper limit
FailsRangeLowOnly(z, lo, hi) == RLt(z, lo)

\* line 98
FailsRange(z, lo, hi) == RLt(z, lo) \/ RLt(hi, z)

\* line 93 with the median taken again over the values not yet rejected
ClipMedianRecomputed ==
    Median(SelectSeq(zs, LAMBDA z : ~\E k \in 1..Len(zs_to_rem) :
                                        zs_to_rem[k] = z))

\* the median the clipping test of this step uses: the one of line 91
ClipMedian == med_z

\* lines 93 and 98 with the second test as an elif of the first
RejectionsElif(z, med, radius, lo, hi) ==
    IF FailsClip(z, med, radius) THEN <<"clipReject">>
    ELSE IF FailsRange(z, lo, hi) THEN <<"rangeReject">>
    ELSE <<>>

\* lines 93 and 98 are two separate if statements: the failed tests of one
\* record, in the order the code makes them
Rejections(z, med, radius, lo, hi) ==
    (IF FailsClip(z, med, radius) THEN <<"clipReject">> ELSE <<>>)
    \o (IF FailsRange(z, lo, hi) THEN <<"rangeReject">> ELSE <<>>)

\* lines 96 and 101
RejectLine(kind, line_obj) ==
    IF kind = "clipReject"
    THEN [kind |-> kind, name |-> line_obj[1],
          wav |-> RoundTo(RInt(line_obj[2]), 2), clip |-> RoundTo(clip, 2)]
    ELSE [kind |-> kind, name |-> line_obj[1],
          wav |-> RoundTo(RInt(line_obj[2]), 2),
          lo |-> RoundTo(z_low, 2), hi |-> RoundTo(z_high, 2)]

Reject ==
    /\ pc = "reject"
    /\ pos <= Len(output)
    /\ LET line_obj == output[pos]
       IN  \E fs \in {Rejections(line_obj[4], ClipMedian, clip,
                                 z_low, z_high)} :
              /\ zs_to_rem' = zs_to_rem \o
                              [k \in 1..Len(fs) |-> line_obj[4]]
              /\ lines_to_rem' = lines_to_rem \o
                                 [k \in 1..Len(fs) |-> line_obj]
              /\ diag' = diag \o
                         [k \in 1..Len(fs) |-> RejectLine(fs[k], line_obj)]
    /\ pos' = pos + 1
    /\ UNCHANGED <<args, ratios, ratio_names, error, candidates, zs, output,
                   stats, raised, pc>>

(***************************************************************************)
(* Lines 103-108: removal by value.                                        *)
(***************************************************************************)
\* for x in rem: if x in s: s.remove(x)
RECURSIVE RemoveAll(_, _)
RemoveAll(s, rem) ==
    IF rem = <<>> THEN s
    ELSE RemoveAll(IF Contains(s, Head(rem)) THEN RemoveFirst(s, Head(rem))
                   ELSE s,
                   Tail(rem))

\* lines 106-108 without lines 103-105: the records go, their values stay
RemoveLinesOnly ==
    /\ pc = "reject"
    /\ pos > Len(output)
    /\ output' = RemoveAll(output, lines_to_rem)
    /\ pc' = "final"
    /\ UNCHANGED <<args, ratios, ratio_names, error, candidates, zs,
                   zs_to_rem, lines_to_rem, stats, diag, pos, raised>>

Remove ==
    /\ pc = "reject"
    /\ pos > Len(output)
    /\ zs' = RemoveAll(zs, zs_to_rem)
    /\ output' = RemoveAll(output, lines_to_rem)
    /\ pc' = "final"
    /\ UNCHANGED <<args, ratios, ratio_names, error, candidates, zs_to_rem,
                   lines_to_rem, stats, diag, pos, raised>>

(***************************************************************************)
(* Lines 110-119: the final statistics and the summary.                    *)
(***************************************************************************)
\* lines 113-115 over the surviving values
Summary(values) ==
    [kind |-> "summary", mean |-> RoundTo(Mean(values), 4),
     median |-> RoundTo(Median(values), 4),
     var |-> Variance(values)]

Final ==
    /\ pc = "final"
    /\ avg_z' = Mean(zs)
    /\ std_z' = Variance(zs)
    /\ med_z' = Median(zs)
    /\ zs' = [k \in 1..Len(zs) |-> RoundTo(zs[k], 4)]
    /\ diag' = diag \o
               <<BlankLine, [kind |-> "finalHeader", n |-> Len(zs)], RuleLine,
                 [kind |-> "individual", zs |-> zs'], Summary(zs)>>
    /\ pc' = "return"
    /\ UNCHANGED <<args, ratios, ratio_names, error, candidates, output,
                   zs_to_rem, lines_to_rem, pos, raised>>

\* line 120
Return ==
    /\ pc = "return"
    /\ pc' = "done"
    /\ UNCHANGED <<args, ratios, ratio_names, error, candidates, zs, output,
                   zs_to_rem, lines_to_rem, stats, diag, pos, raised>>

\* lines 42-49 with one list left as the call before had it
StaleLocals ==
    /\ ratios' = <<>>
    /\ ratio_names' = <<>>
    /\ error' = <<>>
    /\ candidates' = <<>>
    /\ zs' = <<>>
    /\ output' = <<>>
    /\ zs_to_rem' = <<>>
    /\ UNCHANGED lines_to_rem

\* lines 42-49: every call binds its lists anew
FreshLocals ==
    /\ ratios' = <<>>
    /\ ratio_names' = <<>>
    /\ error' = <<>>
    /\ candidates' = <<>>
    /\ zs' = <<>>
    /\ output' = <<>>
    /\ zs_to_rem' = <<>>
    /\ lines_to_rem' = <<>>

\* the function is called again with the same arguments, as the notebook
\* calls it cell after cell
Invoke ==
    /\ pc \in {"done", "raised"}
    /\ FreshLocals
    /\ avg_z' = NaN
    /\ std_z' = NaN
    /\ med_z' = NaN
    /\ diag' = <<>>
    /\ pos' = 0
    /\ raised' = "none"
    /\ pc' = "enumerate"
    /\ UNCHANGED args

Next ==
    \/ Enumerate
    \/ Match
    \/ Aggregate
    \/ ComputeZ
    \/ Reject
    \/ Remove
    \/ Final
    \/ Return
    \/ Invoke

Spec == Init /\ [][Next]_vars

SpecAny == InitAny /\ [][Next]_vars

SpecScaled == InitScaled /\ [][Next]_vars

(***************************************************************************)
(* Properties of one invocation.                                           *)
(***************************************************************************)
AggDone == pc \in {"compute", "reject", "final", "return", "done"}

\* the number of positions of s holding x
Count(s, x) == Cardinality({k \in 1..Len(s) : s[k] = x})

IndexPairs(n) == {p \in (1..n) \X (1..n) : p[1] < p[2]}

\* |obs[l]/obs[k] - cal[j]/cal[i]| / (cal[j]/cal[i]) <= offset for positive
\* wavelengths, cleared of its denominators
RatioWithin(i, j, k, l) ==
    Abs(obs_wav[l] * cal_wav[i] - cal_wav[j] * obs_wav[k]) * offset[2]
        <= offset[1] * obs_wav[k] * cal_wav[j]

\* C1: when matching is over, the entry ((k, l), label) occurs in candidates
\* exactly as many times as there are catalog pairs i < j carrying that label
\* whose ratio is within offset of the ratio of the observed pair k < l, and
\* candidates holds nothing else: a combination is recorded iff it is within
\* the tolerance, and every such combination once.
C1_MatchIffWithin ==
    pc = "aggregate" =>
        /\ \A p \in IndexPairs(Len(cal_names)), q \in IndexPairs(Len(obs_wav)) :
              LET lab == Label(cal_names[p[1]], cal_names[p[2]])
              IN  Count(candidates, <<<<q[1], q[2]>>, lab>>) =
                  Cardinality({c \in IndexPairs(Len(cal_names)) :
                                  /\ Label(cal_names[c[1]], cal_names[c[2]]) = lab
                                  /\ RatioWithin(c[1], c[2], q[1], q[2])})
        /\ \A x \in 1..Len(candidates) :
              \E p \in IndexPairs(Len(cal_names)), q \in IndexPairs(Len(obs_wav)) :
                  /\ candidates[x] =
                        <<<<q[1], q[2]>>, Label(cal_names[p[1]], cal_names[p[2]])>>
                  /\ RatioWithin(p[1], p[2], q[1], q[2])

\* matching is over, one observed pair was recorded for two catalog pairs
\* with different labels, and some combination was left out
C1_Witness ==
    /\ pc = "aggregate"
    /\ \E x, y \in 1..Len(candidates) :
          /\ x < y
          /\ candidates[x][1] = candidates[y][1]
          /\ candidates[x][2] # candidates[y][2]
    /\ \E p \in IndexPairs(Len(cal_names)), q \in IndexPairs(Len(obs_wav)) :
          ~RatioWithin(p[1], p[2], q[1], q[2])

\* the first three fields of a record
Triple(rec) == SubSeq(rec, 1, 3)

\* the two records of every candidate match, in discovery order
FlatRecords ==
    [x \in 1..(2 * Len(candidates)) |->
        LET c == candidates[(x + 1) \div 2]
            side == IF x % 2 = 1 THEN 1 ELSE 2
            name == Split(c[2])[side]
        IN  <<name, obs_wav[c[1][side]], cal_wav[IndexOf(cal_names, name)]>>]

FirstPos(s, x) == IndexOf(s, x)

\* C2: after the aggregation loop and up to the return, no two records of
\* output share (name, observedWavelength, restWavelength), every record
\* comes from a candidate match, the records stand in the order in which
\* their triples first occur among the candidates' records, and before the
\* rejection every such triple is in the list.
C2_UniqueInFirstOccurrenceOrder ==
    (AggDone /\ raised = "none") =>
        LET flat == FlatRecords
            first == [a \in 1..Len(output) |-> FirstPos(flat, Triple(output[a]))]
        IN  /\ \A a \in 1..Len(output) : first[a] > 0
            /\ \A a, b \in 1..Len(output) :
                  a < b => /\ Triple(output[a]) # Triple(output[b])
                           /\ first[a] < first[b]
            /\ (pc \in {"compute", "reject"} \/ ~redshift) =>
                  \A x \in 1..Len(flat) :
                      \E a \in 1..Len(output) : Triple(output[a]) = flat[x]

\* a returned list of several records built from candidates that repeat one
C2_Witness ==
    /\ pc = "done"
    /\ Len(output) >= 2
    /\ \E x, y \in 1..Len(FlatRecords) : x < y /\ FlatRecords[x] = FlatRecords[y]

\* z within both the clipping window around the median of all per-line
\* redshifts and the range [z_low, z_high]
C3Keep(rec) ==
    LET median0 == Median(zs)
        z == rec[4]
    IN  /\ RLeq(RSub(median0, clip), z)
        /\ RLeq(z, RAdd(median0, clip))
        /\ RLeq(z_low, z)
        /\ RLeq(z, z_high)

\* C3: the removal step leaves in output exactly the records, in their
\* order, whose redshift passes both tests against the median of the complete
\* redshift sequence, and nothing changes the list between there and the
\* return.
C3_ReturnedIsPassingSubsequence ==
    [][/\ (pc = "reject" /\ pc' = "final") =>
              output' = SelectSeq(output, C3Keep)
       /\ pc \in {"final", "return"} => output' = output]_vars

\* the removal step has run, some records were rejected and some survive
C3_Witness ==
    /\ pc = "final"
    /\ Len(output) > 0
    /\ Len(lines_to_rem) > 0

\* the values of zs not yet queued for removal
NotYetRejected ==
    SelectSeq(zs, LAMBDA z : ~\E k \in 1..Len(zs_to_rem) : zs_to_rem[k] = z)

\* C4: in every step of the rejection pass the record at hand is reported
\* as clipped iff its redshift lies outside the window around the median of
\* the complete redshift sequence, and the step changes neither that
\* sequence nor the median computed from it.
C4_MedianFrozen ==
    [][(pc = "reject" /\ pos <= Len(output)) =>
          /\ zs' = zs
          /\ med_z' = med_z
          /\ med_z = Median(zs)
          /\ LET z == output[pos][4]
                 m == Median(zs)
             IN  (\E k \in (Len(diag) + 1)..Len(diag') :
                      diag'[k].kind = "clipReject")
                 <=> (RLt(z, RSub(m, clip)) \/ RLt(RAdd(m, clip), z))]_vars

\* mid-pass: a record has been rejected, a later one is still to be tested,
\* and the median of what is left differs from the one in use
C4_Witness ==
    /\ pc = "reject"
    /\ 1 < pos
    /\ pos <= Len(output)
    /\ Len(zs_to_rem) > 0
    /\ NotYetRejected # <<>>
    /\ Median(NotYetRejected) # med_z

\* C5: once the per-line redshifts are computed, every record of output
\* carries z with z = observedWavelength / restWavelength - 1, and zs holds
\* the same values at the same positions.
C5_RedshiftPerLine ==
    pc = "reject" =>
        /\ Len(zs) = Len(output)
        /\ \A k \in 1..Len(output) :
              /\ Len(output[k]) = 4
              /\ output[k][4][2] > 0
              /\ output[k][4][1] * output[k][3]
                    = (output[k][2] - output[k][3]) * output[k][4][2]
              /\ zs[k] = output[k][4]

\* redshifts computed for several records, not all the same
C5_Witness ==
    /\ pc = "reject"
    /\ Len(output) >= 3
    /\ \E a, b \in 1..Len(zs) : zs[a] # zs[b]

\* the catalog of the data model: as many wavelengths as names, all positive
ValidCatalog ==
    /\ Len(cal_names) = Len(cal_wav)
    /\ \A k \in 1..Len(cal_wav) : cal_wav[k] > 0

\* C6: a call with a non-positive catalog wavelength, or with name and
\* wavelength sequences of different lengths, goes no further than its entry:
\* it ends there as an invalid-catalog outcome, with no ratio formed, no
\* match recorded and no other exception.
C6_InvalidCatalogRejected ==
    ~ValidCatalog =>
        \/ pc = "enumerate"
        \/ /\ raised = "InvalidCatalog"
           /\ ratios = <<>>
           /\ candidates = <<>>

\* C7: with redshift requested, a summary over no surviving redshift is
\* never printed with not-a-number as its mean, median or deviation.
C7_NoNaNSummary ==
    \A k \in 1..Len(diag) :
        diag[k].kind = "summary" =>
            /\ ~IsNaN(diag[k].mean)
            /\ ~IsNaN(diag[k].median)
            /\ ~IsNaN(diag[k].var)

NoPairs == Len(obs_wav) <= 1 \/ Len(cal_names) <= 1

\* C8: with at most one observed line, or at most one catalog line, no
\* candidate is ever recorded, the identification list stays empty, no
\* exception ends the call, and until the call has returned its next block
\* can always run.
C8_NoPairsNoMatches ==
    [](NoPairs =>
        /\ candidates = <<>>
        /\ output = <<>>
        /\ raised = "none"
        /\ pc # "raised"
        /\ pc # "done" => ENABLED Next)

\* a call with no observed line and a catalog that has pairs has returned,
\* redshift requested
C8_Witness ==
    /\ pc = "done"
    /\ redshift
    /\ obs_wav = <<>>
    /\ Len(cal_names) >= 2
    /\ output = <<>>

RECURSIVE IsSubseq(_, _)
\* s is t with some elements left out
IsSubseq(s, t) ==
    IF s = <<>> THEN TRUE
    ELSE IF t = <<>> THEN FALSE
    ELSE IF Head(s) = Head(t) THEN IsSubseq(Tail(s), Tail(t))
    ELSE IsSubseq(s, Tail(t))

\* tolerances below, at and above the ones a call is made with
ToleranceSet == {<<0, 1>>, <<1, 9>>, <<1, 8>>, <<1, 4>>}

CandidatesAt(t) == Matcher(ratios, ratio_names, obs_wav, t).candidates

\* C9: when matching is over, the candidates recorded with offset contain, in the same relative
\* order, the candidates the same catalog and observed list give with any
\* smaller tolerance, and are contained likewise in those of any larger one.
C9_MonotonicInTolerance ==
    pc = "aggregate" =>
        LET ev == Evaluated(Combos(Len(ratios), Len(obs_wav)), ratios, obs_wav)
            at == [t \in ToleranceSet |->
                     HitsOf(SelectSeq(ev, LAMBDA e : Within(e.pe, t)),
                            ratio_names, ratios, t, FALSE).candidates]
        IN  \A t \in ToleranceSet :
                /\ RLeq(t, offset) => IsSubseq(at[t], candidates)
                /\ RLeq(offset, t) => IsSubseq(candidates, at[t])

\* the tolerance 1/8 records matches that the tolerance 0 does not, on top
\* of the ones it does, and fewer than the tolerance 1/4
C9_Witness ==
    /\ pc = "aggregate"
    /\ offset = <<1, 8>>
    /\ CandidatesAt(<<0, 1>>) # <<>>
    /\ Len(CandidatesAt(<<0, 1>>)) < Len(candidates)
    /\ Len(candidates) < Len(CandidatesAt(<<1, 4>>))

IsRejectLine(line) == line.kind \in {"clipReject", "rangeReject"}

RejectCount(d) == Cardinality({k \in 1..Len(d) : IsRejectLine(d[k])})

\* C10: a step of the rejection pass prints, for the record at hand, a
\* clipping line if the record is outside the clipping window and then a
\* range line if it is outside [z_low, z_high], and nothing else; the pass
\* moves on to the next record of the list; no other step of the call prints
\* a rejection line.
C10_OneLinePerFailedPredicate ==
    [][IF pc = "reject" /\ pos <= Len(output)
       THEN LET rec == output[pos]
                z == rec[4]
                outside == RLt(z, RSub(med_z, clip)) \/ RLt(RAdd(med_z, clip), z)
                offRange == RLt(z, z_low) \/ RLt(z_high, z)
                added == SubSeq(diag', Len(diag) + 1, Len(diag'))
                kinds == [k \in 1..Len(added) |-> added[k].kind]
            IN  /\ SubSeq(diag', 1, Len(diag)) = diag
                /\ kinds = (IF outside THEN <<"clipReject">> ELSE <<>>)
                           \o (IF offRange THEN <<"rangeReject">> ELSE <<>>)
                /\ \A k \in 1..Len(added) : added[k].name = rec[1]
                /\ pos' = pos + 1
                /\ output' = output
       ELSE pc' = "enumerate" \/ RejectCount(diag') = RejectCount(diag)]_vars

\* the pass is over: one record gave a clipping line followed by its range
\* line, another a single line, and a third none
C10_Witness ==
    /\ pc = "final"
    /\ \E a, b \in 1..Len(lines_to_rem) :
          /\ Count(lines_to_rem, lines_to_rem[a]) = 2
          /\ Count(lines_to_rem, lines_to_rem[b]) = 1
    /\ \E k \in 1..(Len(diag) - 1) :
          /\ diag[k].kind = "clipReject"
          /\ diag[k + 1].kind = "rangeReject"
          /\ diag[k].name = diag[k + 1].name
          /\ diag[k].wav = diag[k + 1].wav
    /\ Len(output) >= 1

\* the catalog positions holding name
PositionsOf(name) == {k \in 1..Len(cal_names) : cal_names[k] = name}

\* C11: once the identification list is built, the rest wavelength of every
\* record is the catalog wavelength at the smallest catalog position whose
\* name is the record's name, also for a name the catalog holds several
\* times.
C11_RestFromFirstOccurrence ==
    (AggDone /\ raised = "none") =>
        \A a \in 1..Len(output) :
            /\ PositionsOf(output[a][1]) # {}
            /\ \E k \in PositionsOf(output[a][1]) :
                  /\ \A m \in PositionsOf(output[a][1]) : k <= m
                  /\ output[a][3] = cal_wav[k]

\* a record whose name stands at two catalog positions with different
\* wavelengths
C11_Witness ==
    /\ pc = "done"
    /\ \E a \in 1..Len(output) :
          \E k, m \in PositionsOf(output[a][1]) :
              k < m /\ cal_wav[k] # cal_wav[m]

\* <<i, j, k, l>> before <<i', j', k', l'>>: catalog pair first, observed
\* pair second, each pair by its first position then its second
LexLess(a, b) ==
    \E x \in 1..4 : a[x] < b[x] /\ \A y \in 1..(x - 1) : a[y] = b[y]

\* catalog pair (i, j) with observed pair (k, l), for every combination
\* within the tolerance
WithinQuads ==
    {<<p[1], p[2], q[1], q[2]>> :
        p \in IndexPairs(Len(cal_names)), q \in IndexPairs(Len(obs_wav))}
    \cap {c \in (1..Len(cal_names)) \X (1..Len(cal_names))
                \X (1..Len(obs_wav)) \X (1..Len(obs_wav)) :
             RatioWithin(c[1], c[2], c[3], c[4])}

\* the elements of a set of quadruples, smallest first
InLexOrder(S) ==
    [x \in 1..Cardinality(S) |->
        CHOOSE c \in S : Cardinality({d \in S : LexLess(d, c)}) = x - 1]

\* the printed lines but for rules and blank lines
Events == SelectSeq(diag, LAMBDA d : d.kind \notin {"rule", "blank"})

EventsOf(kinds) == SelectSeq(diag, LAMBDA d : d.kind \in kinds)

Phase(d) ==
    CASE d.kind = "candHeader" -> 1
      [] d.kind = "candidate" -> 2
      [] d.kind = "zHeader" -> 3
      [] d.kind = "z" -> 4
      [] d.kind \in {"clipReject", "rangeReject"} -> 5
      [] d.kind = "finalHeader" -> 6
      [] d.kind = "individual" -> 7
      [] d.kind = "summary" -> 8

\* C12: with redshift requested, the lines printed so far stand in phase
\* order at every moment (candidate header, candidate lines, redshift
\* header, per-line redshift lines, rejection lines, final header and
\* summary); once matching is over the candidate lines are those of the
\* combinations within the tolerance with the catalog pair as outer order
\* and the observed pair as inner order; once the redshifts are computed the
\* per-line lines follow the identification list; and the summary is the
\* last line of a call that returned.
C12_PhaseOrder ==
    (redshift /\ raised = "none") =>
        /\ LET ev == Events
           IN  /\ \A x \in 1..(Len(ev) - 1) : Phase(ev[x]) <= Phase(ev[x + 1])
               /\ pc # "enumerate" => ev[1].kind = "candHeader"
               /\ pc = "done" => ev[Len(ev)].kind = "summary"
        /\ pc = "aggregate" =>
              LET quads == InLexOrder(WithinQuads)
                  lines == EventsOf({"candidate"})
              IN  /\ Len(lines) = Len(quads)
                  /\ \A x \in 1..Len(quads) :
                        /\ lines[x].a = quads[x][3]
                        /\ lines[x].b = quads[x][4]
                        /\ lines[x].label = Label(cal_names[quads[x][1]],
                                                  cal_names[quads[x][2]])
        /\ pc = "reject" =>
              LET lines == EventsOf({"z"})
              IN  /\ Len(lines) = Len(output)
                  /\ \A x \in 1..Len(output) :
                        /\ lines[x].name = output[x][1]
                        /\ lines[x].wav = RInt(output[x][2])
                        /\ lines[x].z = RoundTo(output[x][4], 4)

\* a call with redshift requested has returned: a later catalog pair matched
\* an earlier observed pair than the catalog pair before it did, a record
\* was rejected, and the summary is printed
C12_Witness ==
    /\ pc = "done"
    /\ redshift
    /\ LET lines == EventsOf({"candidate"})
       IN  \E x \in 1..(Len(lines) - 1) :
              /\ lines[x].label # lines[x + 1].label
              /\ \/ lines[x + 1].a < lines[x].a
                 \/ lines[x + 1].a = lines[x].a /\ lines[x + 1].b < lines[x].b
    /\ EventsOf({"clipReject", "rangeReject"}) # <<>>
    /\ EventsOf({"z"}) # <<>>
    /\ diag[Len(diag)].kind = "summary"

\* the redshift a record would get
WouldBeZ(rec) == Redshift(rec[2], rec[3])

\* C13: when redshift is not requested no block of the estimator ever runs:
\* no redshift is computed, nothing is queued for removal, no redshift,
\* rejection or summary line is printed; and what is returned is the complete
\* deduplicated list of the candidates' records, each of three fields,
\* whatever z_low, z_high and clip are.
C13_NoEstimatorWithoutRedshift ==
    (~redshift /\ raised = "none") =>
        /\ pc \notin {"compute", "reject", "final"}
        /\ zs = <<>>
        /\ zs_to_rem = <<>>
        /\ lines_to_rem = <<>>
        /\ EventsOf({"zHeader", "z", "clipReject", "rangeReject",
                     "finalHeader", "individual", "summary"}) = <<>>
        /\ pc \in {"return", "done"} =>
              LET flat == FlatRecords
              IN  /\ \A a \in 1..Len(output) :
                        /\ Len(output[a]) = 3
                        /\ Contains(flat, output[a])
                  /\ \A x \in 1..Len(flat) : Count(output, flat[x]) = 1

\* a call without redshift has returned records that the range and the
\* clipping radius passed by the caller would have rejected
C13_Witness ==
    /\ pc = "done"
    /\ ~redshift
    /\ <<z_low, z_high, clip>> # <<DefaultZLow, DefaultZHigh, DefaultClip>>
    /\ Len(output) >= 2
    /\ \E a \in 1..Len(output) :
          FailsRange(WouldBeZ(output[a]), z_low, z_high)
    /\ \E a \in 1..Len(output) :
          FailsClip(WouldBeZ(output[a]),
                    Median([b \in 1..Len(output) |-> WouldBeZ(output[b])]),
                    clip)

\* the catalog has at least two names, all different, and every observed
\* wavelength is the catalog wavelength of its position times one factor
ScaledCatalog ==
    /\ Len(cal_names) >= 2
    /\ Len(obs_wav) = Len(cal_names)
    /\ \A a, b \in 1..Len(cal_names) : a # b => cal_names[a] # cal_names[b]
    /\ \A k \in 1..Len(cal_wav) :
          obs_wav[k] * cal_wav[1] = obs_wav[1] * cal_wav[k]

\* the common redshift obs/cal - 1
CommonZ == RSub(Rat(obs_wav[1], cal_wav[1]), RInt(1))

BeforeRejection ==
    \/ pc \in {"compute", "reject"}
    \/ ~redshift /\ pc \in {"return", "done"}

\* C14: for a catalog of different names and an observed list that is the
\* catalog at one redshift z, whatever offset is: once matching is over
\* every catalog pair (i, j) is recorded with the observed pair (i, j); the
\* identification list before rejection holds (name_k, obs[k], cal[k]) for
\* every position k; and each of these records gets the redshift z.
C14_RatioInvariance ==
    ScaledCatalog =>
        /\ raised = "none"
        /\ pc = "aggregate" =>
              \A p \in IndexPairs(Len(cal_names)) :
                  Contains(candidates,
                           <<<<p[1], p[2]>>,
                             Label(cal_names[p[1]], cal_names[p[2]])>>)
        /\ BeforeRejection =>
              \A k \in 1..Len(cal_names) :
                  \E a \in 1..Len(output) :
                      /\ Triple(output[a]) =
                            <<cal_names[k], obs_wav[k], cal_wav[k]>>
                      /\ pc = "reject" => output[a][4] = CommonZ

\* three lines observed at z = 1/2 and matched with offset 0: the redshifts
\* are computed
C14_Witness ==
    /\ ScaledCatalog
    /\ pc = "reject"
    /\ Len(cal_names) = 3
    /\ offset = <<0, 1>>
    /\ CommonZ = <<1, 2>>
    /\ Len(output) = 3

\* what lines 55-108 return for the arguments, computed from them alone
ReturnedFor ==
    LET e == EnumLoop(Pairs(Len(cal_names)), cal_names, cal_wav, <<>>, <<>>)
        m == Matcher(e.ratios, e.names, obs_wav, offset)
        a == Aggregator(m.candidates, cal_names, cal_wav, obs_wav).output
        withz == [k \in 1..Len(a) |-> WithZ(a[k])]
        med == Median([k \in 1..Len(a) |-> withz[k][4]])
    IN  IF redshift
        THEN SelectSeq(withz, LAMBDA rec :
                 /\ ~FailsClip(rec[4], med, clip)
                 /\ ~FailsRange(rec[4], z_low, z_high))
        ELSE a

\* C15: no step of a call changes cal_names, cal_wav, obs_wav or another
\* argument; every call, the first and one that follows another, starts
\* with its eight lists empty; a call after another one has the same
\* arguments; and the list a call returns is the one its arguments
\* determine.
C15_PureFunction ==
    /\ [](pc = "enumerate" =>
            /\ ratios = <<>> /\ ratio_names = <<>> /\ error = <<>>
            /\ candidates = <<>> /\ zs = <<>> /\ output = <<>>
            /\ zs_to_rem = <<>> /\ lines_to_rem = <<>> /\ diag = <<>>)
    /\ [](pc = "done" => output = ReturnedFor)
    /\ [][args' = args]_vars

\* a call with redshift requested has returned some records and rejected
\* others; the next call is about to start
C15_Witness ==
    /\ pc = "done"
    /\ redshift
    /\ ENABLED Invoke
    /\ output # <<>>
    /\ lines_to_rem # <<>>
    /\ zs # <<>>

\* C16: after the removal step zs holds, position by position, the
\* redshifts of the records left in output; after the final block it holds
\* them rounded to 4 places; and the count N of the final header is the
\* length of the returned list.
C16_ValuesFollowRecords ==
    /\ pc = "final" =>
          /\ Len(zs) = Len(output)
          /\ \A k \in 1..Len(output) : zs[k] = output[k][4]
    /\ (redshift /\ pc \in {"return", "done"}) =>
          /\ Len(zs) = Len(output)
          /\ \A k \in 1..Len(output) : zs[k] = RoundTo(output[k][4], 4)
          /\ \A d \in 1..Len(diag) :
                diag[d].kind = "finalHeader" => diag[d].n = Len(output)

\* the removal step has run: one record was queued twice, two other queued
\* records had the same redshift, and a record is left
C16_Witness ==
    /\ pc = "final"
    /\ \E a \in 1..Len(lines_to_rem) : Count(lines_to_rem, lines_to_rem[a]) = 2
    /\ \E a, b \in 1..Len(lines_to_rem) :
          /\ lines_to_rem[a] # lines_to_rem[b]
          /\ lines_to_rem[a][4] = lines_to_rem[b][4]
    /\ output # <<>>

\* n choose 2
Choose2(n) == (n * (n - 1)) \div 2

\* the place of the pair (i, j), i < j <= n, among the pairs of 1..n taken
\* by first position, then by second
PairPos(p, n) == (p[1] - 1) * n - Choose2(p[1]) + (p[2] - p[1])

\* C17: when the catalog loop is over there are C(n,2) ratios and as many
\* labels; the pair (i, j) stands at its place in the order by i then j,
\* with ratio cal_wav[j] / cal_wav[i] whichever wavelength is larger and
\* label name_i & name_j; and the combinations the matcher evaluates are
\* each of the C(n,2) ratios with each of the C(m,2) observed pairs (k, l),
\* k < l, once, the observed ratio being obs_wav[l] / obs_wav[k].
C17_FullCrossProduct ==
    pc = "match" =>
        LET n == Len(cal_names)
            m == Len(obs_wav)
            ev == Evaluated(Combos(Len(ratios), m), ratios, obs_wav)
        IN  /\ Len(ratios) = Choose2(n)
            /\ Len(ratio_names) = Choose2(n)
            /\ \A p \in IndexPairs(n) :
                  /\ ratios[PairPos(p, n)][1] * cal_wav[p[1]]
                        = ratios[PairPos(p, n)][2] * cal_wav[p[2]]
                  /\ ratios[PairPos(p, n)][2] > 0
                  /\ ratio_names[PairPos(p, n)]
                        = Label(cal_names[p[1]], cal_names[p[2]])
            /\ Len(ev) = Choose2(n) * Choose2(m)
            /\ \A r \in 1..Choose2(n), q \in IndexPairs(m) :
                  LET x == (r - 1) * Choose2(m) + PairPos(q, m)
                  IN  /\ ev[x].r = r
                      /\ ev[x].k = q[1]
                      /\ ev[x].l = q[2]
                      /\ ev[x].o[1] * obs_wav[q[1]] = ev[x].o[2] * obs_wav[q[2]]

\* the catalog loop is over for three lines that are not in order of
\* wavelength, and three lines are observed
C17_Witness ==
    /\ pc = "match"
    /\ Len(cal_names) = 3
    /\ Len(obs_wav) = 3
    /\ cal_wav[1] > cal_wav[2]
    /\ cal_wav[2] < cal_wav[3]
    /\ RLt(ratios[1], RInt(1))

\* C18: every candidate carries positions (A, B) with 1 <= A < B <= m,
\* counted from 1; its printed line names the same positions and the ratio
\* obs_wav[B] / obs_wav[A], which is within the tolerance of the ratio of a
\* catalog pair with the candidate's label; and the identification list
\* before rejection holds a record of the first name of the label with
\* obs_wav[A] and a record of the second name with obs_wav[B].
C18_PositionsAndSides ==
    /\ pc = "aggregate" =>
          LET lines == EventsOf({"candidate"})
          IN  /\ Len(lines) = Len(candidates)
              /\ \A x \in 1..Len(candidates) :
                    LET A == candidates[x][1][1]
                        B == candidates[x][1][2]
                    IN  /\ 1 <= A /\ A < B /\ B <= Len(obs_wav)
                        /\ lines[x].a = A
                        /\ lines[x].b = B
                        /\ lines[x].obs_ratio
                              = RoundTo(Rat(obs_wav[B], obs_wav[A]), 6)
                        /\ \E p \in IndexPairs(Len(cal_names)) :
                              /\ Label(cal_names[p[1]], cal_names[p[2]])
                                    = candidates[x][2]
                              /\ RatioWithin(p[1], p[2], A, B)
    /\ (BeforeRejection /\ raised = "none") =>
          \A x \in 1..Len(candidates) :
              \E p \in IndexPairs(Len(cal_names)) :
                  /\ Label(cal_names[p[1]], cal_names[p[2]]) = candidates[x][2]
                  /\ \E a \in 1..Len(output) :
                        /\ output[a][1] = cal_names[p[1]]
                        /\ output[a][2] = obs_wav[candidates[x][1][1]]
                  /\ \E b \in 1..Len(output) :
                        /\ output[b][1] = cal_names[p[2]]
                        /\ output[b][2] = obs_wav[candidates[x][1][2]]

\* the list is built from a candidate on the second and third observed
\* lines, which differ, for two different names
C18_Witness ==
    /\ BeforeRejection
    /\ \E x \in 1..Len(candidates) :
          /\ candidates[x][1] = <<2, 3>>
          /\ obs_wav[2] # obs_wav[3]
          /\ \E a, b \in 1..Len(output) :
                /\ output[a][1] # output[b][1]
                /\ candidates[x][2] = Label(output[a][1], output[b][1])
                /\ output[a][2] = obs_wav[2]
                /\ output[b][2] = obs_wav[3]

\* C19: for every candidate there is a catalog pair (i, j) with the
\* candidate's label whose ratio matched the candidate's observed pair, and
\* the identification list before rejection holds the two records with the
\* wavelengths of that very pair, cal_wav[i] for the first name and
\* cal_wav[j] for the second, so that their quotient is the matched ratio.
C19_RestFromMatchedEntry ==
    (BeforeRejection /\ raised = "none") =>
        \A x \in 1..Len(candidates) :
            \E p \in IndexPairs(Len(cal_names)) :
                /\ Label(cal_names[p[1]], cal_names[p[2]]) = candidates[x][2]
                /\ RatioWithin(p[1], p[2],
                               candidates[x][1][1], candidates[x][1][2])
                /\ \E a, b \in 1..Len(output) :
                      /\ Triple(output[a]) =
                            <<cal_names[p[1]], obs_wav[candidates[x][1][1]],
                              cal_wav[p[1]]>>
                      /\ Triple(output[b]) =
                            <<cal_names[p[2]], obs_wav[candidates[x][1][2]],
                              cal_wav[p[2]]>>
====
